---- MODULE Spec2Model ----
(***************************************************************************)
(* Emergency food allocation: the allocation solve                         *)
(* (solver.py, solve_food_survival_buckets_with_waste), the waste          *)
(* accounting it derives, and the expiry alerts (compute_expiry_alerts).   *)
(*                                                                         *)
(* Calories are modelled as integers.  The mixed integer program handed to *)
(* CBC is modelled by its meaning: the solve returns SOME optimal point of *)
(* the constraint system, chosen nondeterministically.  All data being     *)
(* integral and the draw constraints forming a transportation system, the  *)
(* optimum over integer draws equals the optimum over real draws.          *)
(* Python's 0-based bucket index b is the 1-based position in `buckets`.   *)
(***************************************************************************)
EXTENDS Integers, Sequences, FiniteSets, TLC

VARIABLES buckets, people, calories_per_person, H, enforce_no_waste,
          pc, result, alerts,
          food_items, horizon, results, editing_idx

vars == <<buckets, people, calories_per_person, H, enforce_no_waste,
          pc, result, alerts,
          food_items, horizon, results, editing_idx>>

(* st.session_state of app.py besides people and calories_per_person *)
session == <<food_items, horizon, results, editing_idx>>

request == <<buckets, people, calories_per_person, H, enforce_no_waste>>

(*************************** bounds of the model ***************************)
MaxCalories == 2
MaxPeople == 2
MaxCaloriesPerPerson == 2
MaxH == 2
MaxCalPerUnit == 2

(* bucket names available to a catalog, in the order a valid catalog uses them *)
BucketNames == <<"a", "b">>

(* last_day is None or an int: <<>> models None, <<L>> models the int L *)
None == <<>>
IsNone(v) == v = None
IntOf(v) == v[1]

Max(a, b) == IF a >= b THEN a ELSE b

(***************************** the request *********************************)
D == people * calories_per_person
days == 1..H
B == 1..Len(buckets)

Qb(b) == buckets[b].calories
Lb(b) == buckets[b].last_day

(* sum of f[1..n], f a function on a superset of 1..n *)
RECURSIVE SumTo(_, _)
SumTo(f, n) == IF n <= 0 THEN 0 ELSE SumTo(f, n - 1) + f[n]

(* lpSum(x[b][t] for b in B) *)
RECURSIVE ColSumTo(_, _, _)
ColSumTo(xx, t, n) == IF n = 0 THEN 0 ELSE ColSumTo(xx, t, n - 1) + xx[n][t]
ColSum(xx, t) == ColSumTo(xx, t, Len(xx))

(*********************** the constraint system *****************************)
(* x[b][.] for one bucket: lowBound = 0, inventory_b, expiry_b_d           *)
BucketRowsNoExpiry(b) ==
    {r \in [days -> 0..Max(Qb(b), 0)] : SumTo(r, H) <= Qb(b)}

BucketRowsNoInventory(b) ==
    {r \in [days -> 0..(Max(Qb(b), 0) + 1)] :
        IsNone(Lb(b)) \/ \A t \in days : t > IntOf(Lb(b)) => r[t] = 0}

BucketRowsUseAll(b) ==
    {r \in [days -> 0..Max(Qb(b), 0)] :
        /\ SumTo(r, H) = Qb(b)
        /\ IsNone(Lb(b)) \/ \A t \in days : t > IntOf(Lb(b)) => r[t] = 0}

BucketRows(b) ==
    {r \in [days -> 0..Max(Qb(b), 0)] :
        /\ SumTo(r, H) <= Qb(b)
        /\ IsNone(Lb(b)) \/ \A t \in days : t > IntOf(Lb(b)) => r[t] = 0}

(* all x: one row per bucket *)
RECURSIVE XProd(_)
XProd(n) ==
    IF n = 0 THEN {<<>>}
    ELSE LET rows == BucketRows(n)
         IN  UNION {{Append(p, r) : r \in rows} : p \in XProd(n - 1)}

(* y: Binary, consecutive_t *)
YSetNoConsecutive == [days -> {0, 1}]

YSet == {yy \in [days -> {0, 1}] : \A t \in 1..(H - 1) : yy[t] >= yy[t + 1]}

(* daily_req_t and, with enforce_no_waste, no_waste_t *)
DailyOKNoCap(xx, yy) ==
    \A t \in days : ColSum(xx, t) >= D * yy[t]

DailyOK(xx, yy) ==
    \A t \in days :
        /\ ColSum(xx, t) >= D * yy[t]
        /\ enforce_no_waste => ColSum(xx, t) <= D * yy[t]

Feasible ==
    LET xs == XProd(Len(buckets))
    IN  UNION {{[x |-> xx, y |-> yy] : xx \in {q \in xs : DailyOK(q, yy)}} : yy \in YSet}

Objective(s) == SumTo(s.y, H)

AnyFeasibleOf(F) == F

(* the points m.solve may return: feasible, with the objective maximal *)
OptimalOf(F) ==
    LET best == CHOOSE n \in 0..Max(H, 0) :
                    /\ \E s \in F : Objective(s) = n
                    /\ \A s \in F : Objective(s) <= n
    IN  {s \in F : Objective(s) = best}

(*********************** extraction of the result **************************)
(* dict assignment d[k] = v *)
Put(f, k, v) == [z \in (DOMAIN f) \cup {k} |-> IF z = k THEN v ELSE f[z]]
EmptyDict == <<>>
(* dict lookup d.get(k, dflt) *)
Get(f, k, dflt) == IF k \in DOMAIN f THEN f[k] ELSE dflt

(* val = max(0.0, float(pl.value(x[b][t]))) *)
Val(s, b, t) == Max(0, s.x[b][t])

(* row[buckets[b]["name"]] = val, for b in B in order *)
RECURSIVE RowDraws(_, _, _)
RowDraws(s, t, n) ==
    IF n = 0 THEN EmptyDict
    ELSE Put(RowDraws(s, t, n - 1), buckets[n].name, Val(s, n, t))

(* total += val *)
RECURSIVE RowTotal(_, _, _)
RowTotal(s, t, n) == IF n = 0 THEN 0 ELSE RowTotal(s, t, n - 1) + Val(s, n, t)

ScheduleRow(s, t) ==
    [day |-> t, survived |-> s.y[t],
     draw |-> RowDraws(s, t, Len(buckets)),
     total |-> RowTotal(s, t, Len(buckets))]

Schedule(s) == [t \in days |-> ScheduleRow(s, t)]

(* consumed_cum[b][t]: the running sum of val over days 1..t *)
RECURSIVE ConsumedCum(_, _, _)
ConsumedCum(s, b, t) ==
    IF t <= 0 THEN 0 ELSE ConsumedCum(s, b, t - 1) + Val(s, b, t)

(* consumed_cum[b].get(Lb, 0.0): the keys of consumed_cum[b] are the days *)
ConsumedThroughL(s, b) ==
    IF IntOf(Lb(b)) \in days THEN ConsumedCum(s, b, IntOf(Lb(b))) ELSE 0

(* waste = max(0.0, Qb - consumed_through_L) *)
Waste(s, b) == Max(0, Qb(b) - ConsumedThroughL(s, b))

(* total_waste_by_bucket[name] = 0.0 | waste, for b in B in order *)
RECURSIVE TotalWasteByBucket(_, _)
TotalWasteByBucket(s, n) ==
    IF n = 0 THEN EmptyDict
    ELSE Put(TotalWasteByBucket(s, n - 1), buckets[n].name,
             IF IsNone(Lb(n)) THEN 0 ELSE Waste(s, n))

(* waste_day_totals[Lb] += waste, if waste > 0; read with .get(t, 0.0) *)
RECURSIVE WasteDayTotals(_, _, _)
WasteDayTotals(s, t, n) ==
    IF n = 0 THEN 0
    ELSE WasteDayTotals(s, t, n - 1) +
         (IF ~IsNone(Lb(n)) /\ IntOf(Lb(n)) = t /\ Waste(s, n) > 0
          THEN Waste(s, n) ELSE 0)

(* waste_day_breakdown[Lb][name] = waste, if waste > 0 *)
RECURSIVE WasteDayBreakdown(_, _, _)
WasteDayBreakdown(s, t, n) ==
    IF n = 0 THEN EmptyDict
    ELSE IF ~IsNone(Lb(n)) /\ IntOf(Lb(n)) = t /\ Waste(s, n) > 0
         THEN Put(WasteDayBreakdown(s, t, n - 1), buckets[n].name, Waste(s, n))
         ELSE WasteDayBreakdown(s, t, n - 1)

WasteByDay(s) ==
    [t \in days |->
        [day |-> t,
         waste_total |-> WasteDayTotals(s, t, Len(buckets)),
         waste |-> WasteDayBreakdown(s, t, Len(buckets))]]

NoResult ==
    [status |-> "None", max_days |-> 0, schedule |-> <<>>,
     waste_by_day |-> <<>>, total_waste_by_bucket |-> EmptyDict]

FailedResult(status_str) ==
    [status |-> status_str, max_days |-> 0, schedule |-> <<>>,
     waste_by_day |-> <<>>, total_waste_by_bucket |-> EmptyDict]

SolvedResult(s) ==
    [status |-> "Optimal",
     max_days |-> Objective(s),
     schedule |-> Schedule(s),
     waste_by_day |-> WasteByDay(s),
     total_waste_by_bucket |-> TotalWasteByBucket(s, Len(buckets))]

(************* solve_food_survival_buckets_with_waste **********************)
Solve ==
    /\ pc = "request"
    /\ LET F == Feasible
       IN  IF F = {}
           THEN result' = FailedResult("Infeasible")
           ELSE \E s \in OptimalOf(F) : result' = SolvedResult(s)
    /\ pc' = "solved"
    /\ UNCHANGED <<request, alerts, session>>

(************************ compute_expiry_alerts ****************************)
(* int(a / b) for a >= 0: truncation towards zero *)
TruncDiv(a, b) == IF b > 0 THEN a \div b ELSE 0 - (a \div (0 - b))

(* sum(row.get(name, 0.0) for row in result["schedule"] if row["day"] <= L) *)
RECURSIVE ScheduledThrough(_, _, _, _)
ScheduledThrough(sched, name, L, n) ==
    IF n = 0 THEN 0
    ELSE ScheduledThrough(sched, name, L, n - 1) +
         (IF sched[n].day <= L THEN Get(sched[n].draw, name, 0) ELSE 0)

ExtraCalories(res, bucket) ==
    Max(0, bucket.calories -
           ScheduledThrough(res.schedule, bucket.name, IntOf(bucket.last_day),
                            Len(res.schedule)))

(* a quotient of the code's float arithmetic is kept as <<numerator, denominator>> *)
Alert(res, bucket, npeople) ==
    LET extra_calories == ExtraCalories(res, bucket)
        cal_per_unit == bucket.cal_per_unit
        floor_pp == TruncDiv(extra_calories, cal_per_unit * npeople)
    IN  [bucket |-> bucket.name,
         expires_day |-> IntOf(bucket.last_day),
         extra_calories |-> extra_calories,
         extra_units_total |-> <<extra_calories, cal_per_unit>>,
         extra_units_per_person |-> floor_pp,
         remainder_units |->
             <<extra_calories - floor_pp * npeople * cal_per_unit, cal_per_unit>>,
         cal_per_unit |-> cal_per_unit]

EmitsAlert(res, bucket) ==
    ~IsNone(bucket.last_day) /\ ~(ExtraCalories(res, bucket) < 1)

(* the loop over buckets: alerts.setdefault(L, []).append({...}) *)
RECURSIVE AlertsOf(_, _, _, _)
AlertsOf(res, bs, npeople, n) ==
    IF n = 0 THEN EmptyDict
    ELSE LET prev == AlertsOf(res, bs, npeople, n - 1)
             L == IntOf(bs[n].last_day)
         IN  IF EmitsAlert(res, bs[n])
             THEN Put(prev, L, Append(Get(prev, L, <<>>), Alert(res, bs[n], npeople)))
             ELSE prev

(* extra_units_total / people raises ZeroDivisionError *)
AlertsRaise(res, bs, npeople) ==
    npeople = 0 /\ \E n \in 1..Len(bs) : EmitsAlert(res, bs[n])

ComputeAlerts ==
    /\ pc = "solved"
    /\ IF AlertsRaise(result, buckets, people)
       THEN pc' = "raised" /\ alerts' = alerts
       ELSE pc' = "alerted" /\ alerts' = AlertsOf(result, buckets, people, Len(buckets))
    /\ UNCHANGED <<request, result, session>>

(***************************** requests ************************************)
LastDays == {None} \cup {<<L>> : L \in 1..(MaxH + 1)}

ValidBucket(i) ==
    [name : {BucketNames[i]}, calories : 0..MaxCalories,
     last_day : LastDays, cal_per_unit : 1..MaxCalPerUnit]

RECURSIVE CatalogsOfLen(_)
CatalogsOfLen(n) ==
    IF n = 0 THEN {<<>>}
    ELSE UNION {{Append(c, k) : k \in ValidBucket(n)} : c \in CatalogsOfLen(n - 1)}

(* the functions of solver.py called on their own: no session *)
NoSession ==
    /\ food_items = <<>>
    /\ horizon = H
    /\ results = None
    /\ editing_idx = None

(* valid requests: positive population, ration and horizon, non-negative
   quantities, unique names, positive expiry days *)
Init ==
    /\ buckets \in UNION {CatalogsOfLen(n) : n \in 0..Len(BucketNames)}
    /\ people \in 1..MaxPeople
    /\ calories_per_person \in 1..MaxCaloriesPerPerson
    /\ H \in 1..MaxH
    /\ enforce_no_waste \in BOOLEAN
    /\ pc = "request"
    /\ result = NoResult
    /\ alerts = EmptyDict
    /\ NoSession

Next == Solve \/ ComputeAlerts

Spec == Init /\ [][Next]_vars

(* requests as any caller of the two functions may pass them, the malformed
   ones included: population or ration 0, a negative quantity, a duplicate
   name, an expiry day <= 0 *)
AnyBucket ==
    [name : {BucketNames[i] : i \in 1..Len(BucketNames)}, calories : (-1)..1,
     last_day : {None, <<0>>, <<1>>, <<2>>}, cal_per_unit : {1}]

RECURSIVE AnyCatalogsOfLen(_)
AnyCatalogsOfLen(n) ==
    IF n = 0 THEN {<<>>}
    ELSE UNION {{Append(c, k) : k \in AnyBucket} : c \in AnyCatalogsOfLen(n - 1)}

InitAny ==
    /\ buckets \in UNION {AnyCatalogsOfLen(n) : n \in 0..Len(BucketNames)}
    /\ people \in 0..1
    /\ calories_per_person \in 0..1
    /\ H \in 1..2
    /\ enforce_no_waste \in BOOLEAN
    /\ pc = "request"
    /\ result = NoResult
    /\ alerts = EmptyDict
    /\ NoSession

SpecAny == InitAny /\ [][Next]_vars

(***************************************************************************)
(*                              the claims                                 *)
(***************************************************************************)
Returned == pc # "request"
Solved == Returned /\ result.status = "Optimal"

NameOf(b) == buckets[b].name

(* calories the schedule draws from the bucket called name on days 1..n *)
RECURSIVE DrawnThrough(_, _)
DrawnThrough(name, n) ==
    IF n <= 0 THEN 0
    ELSE DrawnThrough(name, n - 1) +
         (IF n <= Len(result.schedule) THEN result.schedule[n].draw[name] ELSE 0)

SurvivedDays == {t \in 1..Len(result.schedule) : result.schedule[t].survived = 1}

(* C1: in the result of a solve the survived days are exactly 1..max_days:
   no day k is unsurvived while day k+1 is survived *)
C1_PrefixProperty ==
    Solved =>
        /\ SurvivedDays = 1..result.max_days
        /\ \A k \in 1..(H - 1) :
              result.schedule[k].survived = 0 => result.schedule[k + 1].survived = 0

(* a solve that feeds some days of the horizon and then runs out *)
C1_Witness ==
    /\ Solved
    /\ \E k \in 1..(H - 1) :
          result.schedule[k].survived = 1 /\ result.schedule[k + 1].survived = 0

(* a k-day prefix can be fed: some draw gives each day 1..k exactly D, keeps
   every bucket within its calories and takes nothing after a last_day.
   need[t] is what day t still lacks once buckets n+1.. have been drawn *)
Min(a, b) == IF a <= b THEN a ELSE b

RECURSIVE CanFeed(_, _, _)
CanFeed(k, need, n) ==
    IF n = 0 THEN \A t \in 1..k : need[t] = 0
    ELSE \E r \in [1..k -> 0..Min(Max(Qb(n), 0), D)] :
            /\ \A t \in 1..k : r[t] <= need[t]
            /\ SumTo(r, k) <= Qb(n)
            /\ IsNone(Lb(n)) \/ \A t \in 1..k : t > IntOf(Lb(n)) => r[t] = 0
            /\ CanFeed(k, [t \in 1..k |-> need[t] - r[t]], n - 1)

PrefixFeasible(k) == CanFeed(k, [t \in 1..k |-> D], Len(buckets))

(* C2: with enforce_no_waste, max_days is the largest k in 0..H whose k-day
   prefix can be fed exactly; the k+1 prefix cannot, unless max_days = H *)
C2_MaxDaysIsLargestFeasiblePrefix ==
    (Solved /\ enforce_no_waste) =>
        /\ result.max_days \in 0..H
        /\ PrefixFeasible(result.max_days)
        /\ result.max_days < H => ~PrefixFeasible(result.max_days + 1)

(* total food would cover one more day, but an expiry cutoff forbids it *)
C2_Witness ==
    /\ Solved /\ enforce_no_waste
    /\ result.max_days >= 1 /\ result.max_days < H
    /\ SumTo([b \in B |-> Qb(b)], Len(buckets)) >= (result.max_days + 1) * D

(* C3: the schedule never draws more from a bucket, over days 1..H, than the
   bucket holds *)
C3_CapacityNeverExceeded ==
    Solved => \A b \in B : DrawnThrough(NameOf(b), H) <= Qb(b)

(* a bucket drawn down to nothing over more than one day *)
C3_Witness ==
    /\ Solved
    /\ \E b \in B :
          /\ Qb(b) > 0 /\ DrawnThrough(NameOf(b), H) = Qb(b)
          /\ \E t \in 1..(H - 1) : DrawnThrough(NameOf(b), t) \in 1..(Qb(b) - 1)

(* C4: nothing is drawn from a bucket on a day after its last_day *)
C4_NoDrawAfterLastDay ==
    Solved =>
        \A b \in B :
            ~IsNone(Lb(b)) =>
                \A t \in 1..H : t > IntOf(Lb(b)) => result.schedule[t].draw[NameOf(b)] = 0

(* a bucket past its last_day with calories left, on a day that is survived
   from another bucket *)
C4_Witness ==
    /\ Solved
    /\ \E b \in B :
          /\ ~IsNone(Lb(b)) /\ IntOf(Lb(b)) < H
          /\ DrawnThrough(NameOf(b), H) < Qb(b)
          /\ result.schedule[IntOf(Lb(b)) + 1].survived = 1

(* C5: with enforce_no_waste a survived row draws exactly D in total and an
   unsurvived row draws nothing *)
C5_ExactDraw ==
    (Solved /\ enforce_no_waste) =>
        \A t \in 1..H :
            /\ result.schedule[t].survived = 1 => result.schedule[t].total = D
            /\ result.schedule[t].survived = 0 => result.schedule[t].total = 0

(* a survived day followed by an unsurvived one, with calories left over that
   could have been drawn on it *)
C5_Witness ==
    /\ Solved /\ enforce_no_waste
    /\ \E t \in 1..(H - 1) :
          /\ result.schedule[t].survived = 1
          /\ result.schedule[t + 1].survived = 0
          /\ \E b \in B : IsNone(Lb(b)) /\ DrawnThrough(NameOf(b), H) < Qb(b)

(* sum of the values of a dict *)
RECURSIVE SumDictOver(_, _)
SumDictOver(f, ks) ==
    IF ks = {} THEN 0
    ELSE LET k == CHOOSE z \in ks : TRUE
         IN  f[k] + SumDictOver(f, ks \ {k})
SumDict(f) == SumDictOver(f, DOMAIN f)

(* C6: for a bucket with an expiry day L, within or beyond the horizon, its
   total_waste_by_bucket entry plus what the schedule draws from it on days
   <= L is the bucket's calories; a bucket without expiry has waste 0 *)
C6_WasteAccounting ==
    Solved =>
        \A b \in B :
            IF IsNone(Lb(b))
            THEN result.total_waste_by_bucket[NameOf(b)] = 0
            ELSE result.total_waste_by_bucket[NameOf(b)]
                     + DrawnThrough(NameOf(b), IntOf(Lb(b))) = Qb(b)

(* C7: the waste of all buckets sums to the waste_total of all waste_by_day
   rows, and a bucket's waste stands in the row of its expiry day only *)
C7_WasteConsistent ==
    Solved =>
        /\ SumDict(result.total_waste_by_bucket)
              = SumTo([t \in 1..H |-> result.waste_by_day[t].waste_total], H)
        /\ \A b \in B : \A t \in 1..H :
              NameOf(b) \in DOMAIN result.waste_by_day[t].waste =>
                  /\ ~IsNone(Lb(b)) /\ IntOf(Lb(b)) = t
                  /\ result.waste_by_day[t].waste[NameOf(b)]
                        = result.total_waste_by_bucket[NameOf(b)]

Malformed ==
    \/ people <= 0
    \/ calories_per_person <= 0
    \/ H <= 0
    \/ \E b \in B : Qb(b) < 0
    \/ \E b, c \in B : b # c /\ NameOf(b) = NameOf(c)
    \/ \E b \in B : ~IsNone(Lb(b)) /\ IntOf(Lb(b)) <= 0

(* C8: a malformed request is rejected before any solve: it never yields an
   allocation result *)
C8_MalformedRejected ==
    Malformed => (pc = "request" /\ result = NoResult)

NoFoodDrawn == \A t \in 1..Len(result.schedule) : result.schedule[t].total = 0
NoDaySurvived == \A t \in 1..Len(result.schedule) : result.schedule[t].survived = 0

(* C9 as stated: every solve of a valid request returns, never Infeasible,
   with one row per day, and when no day can be fed the rows have survived = 0
   and zero draw *)
C9_ZeroScheduleWhenUnfed ==
    Returned =>
        /\ result.status = "Optimal"
        /\ Len(result.schedule) = H
        /\ result.max_days >= 0
        /\ result.max_days = 0 => (NoDaySurvived /\ NoFoodDrawn)

(* C9 as amended: the same, the zero draw holding when enforce_no_waste is
   set; without it the rows of unsurvived days may draw calories *)
C9_ReturnsAtLeastZeroDays ==
    Returned =>
        /\ result.status = "Optimal"
        /\ Len(result.schedule) = H
        /\ result.max_days >= 0
        /\ result.max_days = 0 => NoDaySurvived
        /\ (result.max_days = 0 /\ enforce_no_waste) => NoFoodDrawn

(* a population too large to feed one day from a catalog that holds food *)
C9_Witness ==
    /\ Returned /\ enforce_no_waste
    /\ \E b \in B : Qb(b) > 0 /\ (IsNone(Lb(b)) \/ IntOf(Lb(b)) >= 1)
    /\ result.max_days = 0
    /\ NoFoodDrawn

AlertCount(name, d) ==
    IF d \in DOMAIN alerts
    THEN Cardinality({i \in DOMAIN alerts[d] : alerts[d][i].bucket = name})
    ELSE 0

AlertDays(name) == {d \in DOMAIN alerts : AlertCount(name, d) > 0}

(* C10: for an expiring bucket the alert's extra_calories, max(0, calories
   less what is scheduled on days <= L), is the bucket's entry of
   total_waste_by_bucket; one alert, under day L, when it is >= 1, none when
   it is < 1 or the bucket does not expire *)
C10_AlertsMatchWaste ==
    (pc = "alerted" /\ result.status = "Optimal") =>
        \A b \in B :
            IF IsNone(Lb(b)) THEN AlertDays(NameOf(b)) = {}
            ELSE LET L == IntOf(Lb(b))
                     extra == Max(0, Qb(b) - DrawnThrough(NameOf(b), L))
                 IN  /\ extra = result.total_waste_by_bucket[NameOf(b)]
                     /\ extra >= 1 =>
                           /\ AlertDays(NameOf(b)) = {L}
                           /\ AlertCount(NameOf(b), L) = 1
                           /\ \A i \in DOMAIN alerts[L] :
                                 alerts[L][i].bucket = NameOf(b) =>
                                     alerts[L][i].extra_calories = extra
                     /\ extra < 1 => AlertDays(NameOf(b)) = {}

(*********** a catalog of one bucket that never expires ********************)
MaxSingleCalories == 6
MaxSingleH == 3

InitSingle ==
    /\ buckets \in {<<[name |-> BucketNames[1], calories |-> q,
                      last_day |-> None, cal_per_unit |-> 1]>> :
                        q \in 0..MaxSingleCalories}
    /\ people \in 1..MaxPeople
    /\ calories_per_person \in 1..MaxCaloriesPerPerson
    /\ H \in 1..MaxSingleH
    /\ enforce_no_waste \in BOOLEAN
    /\ pc = "request"
    /\ result = NoResult
    /\ alerts = EmptyDict
    /\ NoSession

SpecSingle == InitSingle /\ [][Next]_vars

NoWasteAnywhere ==
    /\ \A name \in DOMAIN result.total_waste_by_bucket :
          result.total_waste_by_bucket[name] = 0
    /\ \A t \in 1..Len(result.waste_by_day) :
          /\ result.waste_by_day[t].waste_total = 0
          /\ result.waste_by_day[t].waste = EmptyDict

(* C11: a single bucket of Q calories that never expires yields
   max_days = min(H, floor(Q / D)) and zero waste for every bucket and every
   day (Scenario A: Q = 1,000,000, D = 50 x 2000, H = 60 gives 10) *)
C11_SingleBucketMaxDays ==
    (Solved /\ Len(buckets) = 1 /\ IsNone(Lb(1))) =>
        /\ result.max_days = Min(H, Qb(1) \div D)
        /\ NoWasteAnywhere

(* as in Scenario A the food, not the horizon, ends the run; here with a
   remainder of calories too small for one more day *)
C11_Witness ==
    /\ Solved /\ Len(buckets) = 1 /\ IsNone(Lb(1))
    /\ result.max_days >= 1 /\ result.max_days < H
    /\ result.max_days * D < Qb(1)

(************* the same request solved a second time ***********************)
(* a second call of solve_food_survival_buckets_with_waste with the arguments
   of the first, as the loop over RATION_SCENARIOS or a second run makes it *)
SolveAgain ==
    /\ pc = "solved"
    /\ LET F == Feasible
       IN  IF F = {}
           THEN result' = FailedResult("Infeasible")
           ELSE \E s \in OptimalOf(F) : result' = SolvedResult(s)
    /\ pc' = "solved_again"
    /\ UNCHANGED <<request, alerts, session>>

NextTwice == Solve \/ SolveAgain

(* valid requests; _cal_per_unit, which the solve never reads, is 1, and so
   is people, which it reads only in D = people * calories_per_person *)
InitTwice ==
    /\ Init
    /\ people = 1
    /\ \A b \in B : buckets[b].cal_per_unit = 1

SpecTwice == InitTwice /\ [][NextTwice]_vars

(* C12: the second solve of an identical request returns the status and the
   max_days of the first, and no solve changes the bucket list or any other
   argument it was given *)
C12_SameRequestSameMaxDays ==
    [][/\ request' = request
       /\ (pc = "solved" /\ pc' = "solved_again") =>
             /\ result'.status = result.status
             /\ result'.max_days = result.max_days]_vars

(* a second solve of a request that has several optimal schedules: the draws
   may differ between the two solves, the days survived may not *)
C12_Witness ==
    /\ pc = "solved_again"
    /\ result.status = "Optimal"
    /\ result.max_days >= 1
    /\ Cardinality(OptimalOf(Feasible)) > 1

(***************************************************************************)
(*                 the Streamlit session of app.py                         *)
(* One action is one script run, started by one widget interaction.  List  *)
(* indexes are 1-based here, 0-based in the code.                          *)
(***************************************************************************)
DefaultPeople == 50
DefaultCaloriesPerPerson == 2000
DefaultHorizon == 60
MinCaloriesPerPerson == 500
DefaultCalPerUnit == 200
DefaultUnits == 100

(* food_items may grow to this length *)
MaxItems == 2

(* label -> factor, a factor kept as <<numerator, denominator>> *)
RATION_SCENARIOS ==
    ("Full (100%)" :> <<1, 1>>) @@ ("3/4 Ration" :> <<3, 4>>) @@
    ("2/3 Ration" :> <<2, 3>>) @@ ("1/2 Ration" :> <<1, 2>>)

(* the dict built by the add form and by save *)
Item(name, cal_per_unit, units, expiry_days) ==
    [name |-> name,
     calories |-> cal_per_unit * units,
     last_day |-> IF expiry_days > 0 THEN <<expiry_days>> ELSE None,
     cal_per_unit |-> cal_per_unit,
     units |-> units,
     expiry_days |-> IF expiry_days > 0 THEN <<expiry_days>> ELSE None]

DemoScenario ==
    << [name |-> "Canned Fruit", calories |-> 600000, last_day |-> <<5>>,
        cal_per_unit |-> 150, units |-> 4000, expiry_days |-> <<5>>],
       [name |-> "Fresh Bread", calories |-> 500000, last_day |-> <<9>>,
        cal_per_unit |-> 250, units |-> 2000, expiry_days |-> <<9>>],
       [name |-> "Canned Beans", calories |-> 800000, last_day |-> None,
        cal_per_unit |-> 400, units |-> 2000, expiry_days |-> None],
       [name |-> "Dried Rice", calories |-> 2700000, last_day |-> None,
        cal_per_unit |-> 3600, units |-> 750, expiry_days |-> None] >>

(* what the user may type: a name (" " is blank, "" is empty), the form's
   default numbers, an expiry of 0 (never) or 1 *)
TypedNames == {"", " ", BucketNames[1]}
Strip(name) == IF name = " " THEN "" ELSE name
TypedCalPerUnit == {DefaultCalPerUnit}
TypedUnits == {DefaultUnits}
TypedExpiry == {0, 1}

InitUI ==
    /\ food_items = <<>>
    /\ people = DefaultPeople
    /\ calories_per_person = DefaultCaloriesPerPerson
    /\ horizon = DefaultHorizon
    /\ results = None
    /\ editing_idx = None
    /\ buckets = <<>>
    /\ H = DefaultHorizon
    /\ enforce_no_waste = TRUE
    /\ pc = "session"
    /\ result = NoResult
    /\ alerts = EmptyDict

solver_vars == <<buckets, H, enforce_no_waste, pc, result, alerts>>

(* sidebar number_inputs *)
SetPeople ==
    /\ \E v \in {1, DefaultPeople} : v # people /\ people' = v
    /\ UNCHANGED <<calories_per_person, session, solver_vars>>

SetCaloriesPerPerson ==
    /\ \E v \in {MinCaloriesPerPerson, DefaultCaloriesPerPerson} :
          v # calories_per_person /\ calories_per_person' = v
    /\ UNCHANGED <<people, session, solver_vars>>

SetHorizon ==
    /\ \E v \in {1, DefaultHorizon} : v # horizon /\ horizon' = v
    /\ UNCHANGED <<people, calories_per_person, food_items, results, editing_idx,
                   solver_vars>>

LoadDemo ==
    /\ people' = DefaultPeople
    /\ calories_per_person' = DefaultCaloriesPerPerson
    /\ horizon' = DefaultHorizon
    /\ editing_idx' = None
    /\ results' = None
    /\ food_items' = DemoScenario
    /\ UNCHANGED solver_vars

(* the add_food form *)
AddFoodNoReset ==
    /\ Len(food_items) < MaxItems
    /\ \E name \in TypedNames, cal_per_unit \in TypedCalPerUnit,
          units \in TypedUnits, expiry_days \in TypedExpiry :
          /\ Strip(name) # ""
          /\ food_items' = Append(food_items,
                                  Item(Strip(name), cal_per_unit, units, expiry_days))
    /\ UNCHANGED <<people, calories_per_person, horizon, results, editing_idx,
                   solver_vars>>

AddFood ==
    /\ Len(food_items) < MaxItems
    /\ \E name \in TypedNames, cal_per_unit \in TypedCalPerUnit,
          units \in TypedUnits, expiry_days \in TypedExpiry :
          IF Strip(name) = ""
          THEN UNCHANGED <<food_items, results>>
          ELSE /\ food_items' = Append(food_items,
                                       Item(Strip(name), cal_per_unit, units, expiry_days))
               /\ results' = None
    /\ UNCHANGED <<people, calories_per_person, horizon, editing_idx, solver_vars>>

(* food_items.pop(idx) *)
Pop(items, idx) == [j \in 1..(Len(items) - 1) |-> IF j < idx THEN items[j] ELSE items[j + 1]]

IsEditing(i) == editing_idx = <<i>>

EditItem ==
    /\ \E i \in 1..Len(food_items) : ~IsEditing(i) /\ editing_idx' = <<i>>
    /\ UNCHANGED <<people, calories_per_person, horizon, food_items, results,
                   solver_vars>>

CancelEdit ==
    /\ \E i \in 1..Len(food_items) : IsEditing(i)
    /\ editing_idx' = None
    /\ UNCHANGED <<people, calories_per_person, horizon, food_items, results,
                   solver_vars>>

SaveItem ==
    /\ \E i \in 1..Len(food_items) :
          /\ IsEditing(i)
          /\ \E new_name \in TypedNames, new_cpu \in TypedCalPerUnit,
                new_units \in TypedUnits, new_exp \in TypedExpiry :
                food_items' =
                    [food_items EXCEPT ![i] =
                        Item(IF Strip(new_name) # "" THEN Strip(new_name)
                             ELSE food_items[i].name,
                             new_cpu, new_units, new_exp)]
    /\ editing_idx' = None
    /\ results' = None
    /\ UNCHANGED <<people, calories_per_person, horizon, solver_vars>>

DeleteItem ==
    /\ \E i \in 1..Len(food_items) :
          ~IsEditing(i) /\ food_items' = Pop(food_items, i)
    /\ editing_idx' = None
    /\ results' = None
    /\ UNCHANGED <<people, calories_per_person, horizon, solver_vars>>

ClearAll ==
    /\ food_items # <<>>
    /\ food_items' = <<>>
    /\ editing_idx' = None
    /\ results' = None
    /\ UNCHANGED <<people, calories_per_person, horizon, solver_vars>>

(* what one call of the solve in the loop is given; the value it returns is
   kept as the call it answers *)
SolveCall(label) ==
    [buckets |-> food_items,
     people |-> people,
     calories_per_person |->
         <<calories_per_person * RATION_SCENARIOS[label][1], RATION_SCENARIOS[label][2]>>,
     H |-> horizon,
     enforce_no_waste |-> TRUE]

RunOptimisation ==
    /\ Len(food_items) # 0
    /\ results' = <<[label \in DOMAIN RATION_SCENARIOS |-> SolveCall(label)]>>
    /\ UNCHANGED <<people, calories_per_person, horizon, food_items, editing_idx,
                   solver_vars>>

NextUI ==
    \/ SetPeople \/ SetCaloriesPerPerson \/ SetHorizon \/ LoadDemo
    \/ AddFood \/ EditItem \/ CancelEdit \/ SaveItem \/ DeleteItem \/ ClearAll
    \/ RunOptimisation

SpecUI == InitUI /\ [][NextUI]_vars

(* the Results section is rendered: if st.session_state.results *)
ResultsRendered == results # None
all_results == results[1]

(* C13: whenever results is not None it was computed by a run over exactly
   the current food_items, and editing_idx is None or a valid index into
   food_items *)
C13_ResultsMatchInventory ==
    /\ ResultsRendered =>
          \A label \in DOMAIN all_results : all_results[label].buckets = food_items
    /\ IsNone(editing_idx) \/ IntOf(editing_idx) \in 1..Len(food_items)

(* results of a run shown while a row of a changed inventory is being edited *)
C13_Witness ==
    /\ ResultsRendered
    /\ ~IsNone(editing_idx)
    /\ food_items # DemoScenario
    /\ Len(food_items) >= 2

(* C14: whenever results are rendered, the people, calories_per_person and
   horizon of the session are the ones the stored results were solved with *)
C14_ResultsMatchParameters ==
    ResultsRendered =>
        \A label \in DOMAIN all_results :
            /\ all_results[label].people = people
            /\ all_results[label].calories_per_person =
                  <<calories_per_person * RATION_SCENARIOS[label][1],
                    RATION_SCENARIOS[label][2]>>
            /\ all_results[label].H = horizon

====
